---- MODULE Spec2Model ----
(***************************************************************************)
(* The track state engine (src/app/store/index.js: reducer and helpers)    *)
(* and the validation engine (src/app/validate/utils.js: Validations,      *)
(* validateFromKnowns) of the tunes importer.                              *)
(*                                                                         *)
(* Encoding of JavaScript values:                                          *)
(*  - a string that the code inspects (a file path, a known value) is a    *)
(*    sequence of one-character strings, so that dirname, split,           *)
(*    toLowerCase and the < on strings are computed;                       *)
(*  - an opaque string (a track id, a process tag) is a TLA+ string;       *)
(*  - a plain object is a function; a missing key is a key outside its     *)
(*    DOMAIN; the order of the keys of state.tracks, which Object.values   *)
(*    and Object.keys expose, is kept in its own sequence;                 *)
(*  - null, undefined and NaN where a number is expected are the           *)
(*    sentinels JNull, JUndef, JNaN.                                       *)
(***************************************************************************)
EXTENDS Integers, Sequences, FiniteSets, TLC

VARIABLES state, last, raised, steps, saveNo, inflight, items, value, op

vars == <<state, last, raised, steps, saveNo, inflight, items, value, op>>

storeVars == <<state, last, raised, steps, saveNo, inflight>>

\* the saves the task layer has begun and the completions it has yet to report
saveVars == <<saveNo, inflight>>

validationVars == <<items, value, op>>

(***************************************************************************)
(* Bounds of the model.                                                    *)
(***************************************************************************)
\* number of actions dispatched to the store in one behaviour
MaxSteps == 3

\* number of results in one Validations collection
MaxResults == 3

(***************************************************************************)
(* Generic helpers: sequences and plain objects.                           *)
(***************************************************************************)
Range(s) == {s[i] : i \in 1..Len(s)}

EmptyObj == [k \in {} |-> 0]

Has(o, k) == k \in DOMAIN o

\* { ...a, ...b }
Spread(a, b) == [k \in (DOMAIN a) \cup (DOMAIN b) |-> IF k \in DOMAIN b THEN b[k] ELSE a[k]]

\* delete o[k]
Delete(o, k) == [x \in (DOMAIN o) \ {k} |-> o[x]]

\* o[k] = v on a copy
Assign(o, k, v) == [x \in (DOMAIN o) \cup {k} |-> IF x = k THEN v ELSE o[x]]

Contains(s, x) == \E i \in 1..Len(s) : s[i] = x

IndexOf(s, x) == IF Contains(s, x) THEN CHOOSE i \in 1..Len(s) : s[i] = x /\ \A j \in 1..(i - 1) : s[j] # x ELSE 0

RECURSIVE SeqFilter(_, _)
SeqFilter(s, keep) ==
    IF s = <<>> THEN <<>>
    ELSE IF Head(s) \in keep THEN <<Head(s)>> \o SeqFilter(Tail(s), keep)
    ELSE SeqFilter(Tail(s), keep)

RECURSIVE uniq(_)
\* lodash.uniq: first occurrences, in order
uniq(s) ==
    IF s = <<>> THEN <<>>
    ELSE LET r == uniq(SubSeq(s, 1, Len(s) - 1))
             x == s[Len(s)]
         IN  IF Contains(r, x) THEN r ELSE Append(r, x)

\* lodash.union(a, b): the unique values of a then b, in order
union(a, b) == uniq(a \o b)

\* lodash.difference(a, b): the values of a that are not in b, in order
difference(a, b) == SeqFilter(a, Range(a) \ Range(b))

\* lodash.intersection(a, b): the unique values of a that are in b, in a's order
intersection(a, b) == uniq(SeqFilter(a, Range(b)))

\* Array.prototype.splice(start, 1) for start >= 0, and for start = -1
\* (the last element); the array after the call
splice1(s, start) ==
    LET i == IF start < 0 THEN (IF Len(s) + start < 0 THEN 0 ELSE Len(s) + start) ELSE start
    IN  IF i >= Len(s) THEN s
        ELSE SubSeq(s, 1, i) \o SubSeq(s, i + 2, Len(s))

(***************************************************************************)
(* Strings the code inspects: sequences of characters.                     *)
(***************************************************************************)
\* UTF-16 code unit of the characters in use
CharCode(c) ==
    CASE c = " " -> 32 [] c = "." -> 46 [] c = "/" -> 47
      [] c = "1" -> 49 [] c = "2" -> 50 [] c = "3" -> 51
      [] c = "4" -> 52
      [] c = "A" -> 65 [] c = "B" -> 66 [] c = "C" -> 67 [] c = "D" -> 68 [] c = "J" -> 74
      [] c = "S" -> 83 [] c = "Y" -> 89
      [] c = "a" -> 97 [] c = "b" -> 98 [] c = "d" -> 100 [] c = "i" -> 105
      [] c = "j" -> 106 [] c = "m" -> 109 [] c = "p" -> 112 [] c = "s" -> 115
      [] c = "y" -> 121
      [] OTHER -> 63

RECURSIVE StrLess(_, _)
\* a < b on JavaScript strings
StrLess(a, b) ==
    IF b = <<>> THEN FALSE
    ELSE IF a = <<>> THEN TRUE
    ELSE IF CharCode(Head(a)) # CharCode(Head(b)) THEN CharCode(Head(a)) < CharCode(Head(b))
    ELSE StrLess(Tail(a), Tail(b))

\* index of the last "/" of p, 0 when there is none
LastSlash(p) == IF Contains(p, "/") THEN CHOOSE i \in 1..Len(p) : p[i] = "/" /\ \A j \in (i + 1)..Len(p) : p[j] # "/" ELSE 0

\* path.dirname of a relative or absolute path that does not end in "/"
dirname(p) ==
    LET i == LastSlash(p)
    IN  IF i = 0 THEN <<".">>
        ELSE IF i = 1 THEN <<"/">>
        ELSE SubSeq(p, 1, i - 1)

RECURSIVE split(_)
\* p.split('/')
split(p) ==
    IF ~Contains(p, "/") THEN <<p>>
    ELSE LET i == IndexOf(p, "/")
         IN  <<SubSeq(p, 1, i - 1)>> \o split(SubSeq(p, i + 1, Len(p)))

\* String.prototype.toLowerCase, character by character
lowerChar(c) ==
    CASE c = "A" -> "a" [] c = "B" -> "b" [] c = "D" -> "d" [] c = "J" -> "j"
      [] c = "S" -> "s" [] c = "Y" -> "y"
      [] OTHER -> c

toLowerCase(s) == [i \in 1..Len(s) |-> lowerChar(s[i])]

(***************************************************************************)
(* JavaScript values that are not of the expected type.                    *)
(***************************************************************************)
\* null where a number is expected (artworkSelected)
JNull == 0 - 1

\* NaN, the result of undefined - 1
JNaN == 0 - 2

\* undefined where a number is expected (saveProcess.total)
JUndef == 0 - 3

\* null as the value of a track field received from the server
NullField == "<null>"

\* t.id of a record that has no id, used as an array element
UndefinedId == "<undefined>"

(***************************************************************************)
(* Plain objects whose key order is observed (state.tracks).               *)
(* keys: the own keys in insertion order; at: key -> value.                *)
(***************************************************************************)
OEmpty == [keys |-> <<>>, at |-> EmptyObj]

OHas(o, k) == k \in DOMAIN o.at

\* o[k] = v: an existing key keeps its place, a new key goes last
OAssign(o, k, v) == [keys |-> IF OHas(o, k) THEN o.keys ELSE Append(o.keys, k), at |-> Assign(o.at, k, v)]

\* delete o[k]
ODelete(o, k) == [keys |-> SeqFilter(o.keys, Range(o.keys) \ {k}), at |-> Delete(o.at, k)]

\* Object.values(o)
OValues(o) == [i \in 1..Len(o.keys) |-> o.at[o.keys[i]]]

\* o[k] for reading, with {} for undefined under a spread ({ ...o[k] })
OSpreadOf(o, k) == IF OHas(o, k) THEN o.at[k] ELSE EmptyObj

RECURSIVE OAssignAll(_, _, _)
\* for (k of ks) o[k] = f[k]
OAssignAll(o, ks, f) ==
    IF ks = <<>> THEN o
    ELSE OAssignAll(OAssign(o, Head(ks), f[Head(ks)]), Tail(ks), f)

(***************************************************************************)
(* The state of the store.                                                 *)
(***************************************************************************)
initialState ==
    [ tracks         |-> OEmpty,
      tracksPristine |-> EmptyObj,
      processes      |-> EmptyObj,
      artwork        |-> EmptyObj,
      trackTree      |-> <<>>,
      selectedTracks |-> <<>>,
      saveProcess    |-> [preparing |-> FALSE, targetTracks |-> <<>>, total |-> JUndef],
      knownValues    |-> [ artists    |-> [clean |-> <<>>, normal |-> EmptyObj],
                           publishers |-> [clean |-> <<>>, normal |-> EmptyObj],
                           genres     |-> [clean |-> <<>>, normal |-> EmptyObj] ] ]

\* the fields whose value is an opaque string; a payload carries null in these only
TextFields == {"artist", "title", "album"}

\* lodash.mapValues(track, v => (v === null ? '' : v))
cleanNulls(track) == [f \in DOMAIN track |-> IF f \in TextFields /\ track[f] = NullField THEN "" ELSE track[f]]

\* onSelectedTracks without the focused track
onSelectedTracksOnly(s, focusedTrack) == s.selectedTracks

\* lodash.union(state.selectedTracks, [focusedTrack]): the ids fn is called on
onSelectedTracks(s, focusedTrack) == union(s.selectedTracks, <<focusedTrack>>)

(***************************************************************************)
(* computeTrackTree                                                        *)
(***************************************************************************)
HasPath(t) == "filePath" \in DOMAIN t

\* the order lodash.sortBy puts two keys in: undefined sorts last
PathBefore(a, b) ==
    IF ~HasPath(a) THEN FALSE
    ELSE IF ~HasPath(b) THEN TRUE
    ELSE StrLess(a.filePath, b.filePath)

\* t placed in the sorted sequence s after every element that is not after it
SortedInsert(s, t) ==
    LET n == Cardinality({i \in 1..Len(s) : ~PathBefore(t, s[i])})
        k == IF \E i \in 1..Len(s) : PathBefore(t, s[i])
             THEN (CHOOSE i \in 1..Len(s) : PathBefore(t, s[i]) /\ \A j \in 1..(i - 1) : ~PathBefore(t, s[j])) - 1
             ELSE n
    IN  SubSeq(s, 1, k) \o <<t>> \o SubSeq(s, k + 1, Len(s))

RECURSIVE sortBy(_)
\* lodash.sortBy(tracks, t => t.filePath): ascending and stable
sortBy(ts) ==
    IF ts = <<>> THEN <<>>
    ELSE SortedInsert(sortBy(SubSeq(ts, 1, Len(ts) - 1)), ts[Len(ts)])

\* path.dirname(t.filePath); of an undefined path where the path module
\* converts its argument to a string: dirname("undefined") = "."
TrackDir(t) == IF HasPath(t) THEN dirname(t.filePath) ELSE <<".">>

TrackIdOf(t) == IF "id" \in DOMAIN t THEN t.id ELSE UndefinedId

\* md5(p): a function of the path string alone
md5(p) == <<"md5">> \o p

\* the ids of the tracks of sorted whose directory is p
GroupIds(sorted, p) ==
    LET idx == SeqFilter([i \in 1..Len(sorted) |-> i], {i \in 1..Len(sorted) : TrackDir(sorted[i]) = p})
    IN  [i \in 1..Len(idx) |-> TrackIdOf(sorted[idx[i]])]

\* the directory paths the groups are made for, in order
TreePaths(tracks, sortedTracks) == uniq([i \in 1..Len(tracks) |-> TrackDir(tracks[i])])

computeTrackTree(trackMap) ==
    LET tracks       == OValues(trackMap)
        sortedTracks == sortBy(tracks)
        paths        == TreePaths(tracks, sortedTracks)
    IN  [i \in 1..Len(paths) |->
            [id |-> md5(paths[i]), pathParts |-> split(paths[i]), tracks |-> GroupIds(sortedTracks, paths[i])]]

\* path.dirname(undefined) raises a TypeError in the path module of Node and of
\* path-browserify >= 1.0; earlier path-browserify converts to a string
PathImpls == {"throws", "converts"}

computeTrackTreeThrows(trackMap, impl) == impl = "throws" /\ \E k \in DOMAIN trackMap.at : ~HasPath(trackMap.at[k])

(***************************************************************************)
(* computeTrackNumbers                                                     *)
(***************************************************************************)
\* formatTrackNumbers(n, total) of app/util/format: "n/total", n zero-padded
\* to the number of digits of total
formatTrackNumbers(n, total) ==
    (IF total >= 10 /\ n < 10 THEN "0" ELSE "") \o ToString(n) \o "/" \o ToString(total)

RECURSIVE flatten(_)
\* lodash.flatten
flatten(ss) == IF ss = <<>> THEN <<>> ELSE Head(ss) \o flatten(Tail(ss))

\* SelectedGroups without the filter: the groups without a selected track stay
SelectedGroupsUnfiltered(s) == [i \in 1..Len(s.trackTree) |-> intersection(s.trackTree[i].tracks, s.selectedTracks)]

\* state.trackTree.map(g => intersection(g.tracks, selected)).filter(x => x.length > 0)
SelectedGroups(s) ==
    LET inter == [i \in 1..Len(s.trackTree) |-> intersection(s.trackTree[i].tracks, s.selectedTracks)]
        keep  == SeqFilter([i \in 1..Len(inter) |-> i], {i \in 1..Len(inter) : Len(inter[i]) > 0})
    IN  [i \in 1..Len(keep) |-> inter[keep[i]]]

\* DiscNumber with the total taken from the position
DiscNumberOfPosition(i, n) == formatTrackNumbers(i, i)

\* the disc entry of the group at 1-based position i of the n surviving groups
DiscNumber(i, n) == formatTrackNumbers(i, n)

computeTrackNumbers(s) ==
    LET trackTree == SelectedGroups(s)
        list == [i \in 1..Len(trackTree) |->
                    [j \in 1..Len(trackTree[i]) |->
                        [ id    |-> trackTree[i][j],
                          track |-> formatTrackNumbers(j, Len(trackTree[i])),
                          disc  |-> DiscNumber(i, Len(trackTree)) ]]]
    IN  flatten(list)

(***************************************************************************)
(* normalizeKnownValues                                                    *)
(***************************************************************************)
\* keyByLower keeping the first entry of a key
keyByLowerFirst(k) ==
    [key \in {toLowerCase(k[i]) : i \in 1..Len(k)} |->
        k[CHOOSE i \in 1..Len(k) : toLowerCase(k[i]) = key /\ \A j \in 1..(i - 1) : toLowerCase(k[j]) # key]]

\* lodash.keyBy(k, v => v.toLowerCase()): a later entry replaces an earlier one
keyByLower(k) ==
    [key \in {toLowerCase(k[i]) : i \in 1..Len(k)} |->
        k[CHOOSE i \in 1..Len(k) : toLowerCase(k[i]) = key /\ \A j \in (i + 1)..Len(k) : toLowerCase(k[j]) # key]]

normalizeKnownValues(knowns) == [c \in DOMAIN knowns |-> [clean |-> knowns[c], normal |-> keyByLower(knowns[c])]]

(***************************************************************************)
(* The cases of the reducer. Each gives the state returned.                *)
(***************************************************************************)
RECURSIVE keyBy(_)
\* lodash.keyBy(items, t => t.id)
keyBy(its) == IF its = <<>> THEN OEmpty ELSE OAssign(keyBy(SubSeq(its, 1, Len(its) - 1)), its[Len(its)].id, its[Len(its)])

TrackDetails(s, action) ==
    LET its       == [i \in 1..Len(action.items) |-> cleanNulls(action.items[i])]
        newTracks == keyBy(its)
        tracks    == OAssignAll(s.tracks, newTracks.keys, newTracks.at)
    IN  [s EXCEPT !.tracks = tracks,
                  !.trackTree = computeTrackTree(tracks),
                  !.tracksPristine = Spread(s.tracksPristine, newTracks.at)]

RECURSIVE ODeleteAll(_, _)
ODeleteAll(o, ks) == IF ks = <<>> THEN o ELSE ODeleteAll(ODelete(o, Head(ks)), Tail(ks))

TrackRemoved(s, action) ==
    LET ids    == [i \in 1..Len(action.items) |-> action.items[i].id]
        tracks == ODeleteAll(s.tracks, ids)
    IN  [s EXCEPT !.tracks = tracks, !.trackTree = computeTrackTree(tracks)]

RECURSIVE ProcessingLoop(_, _)
ProcessingLoop(procs, its) ==
    IF its = <<>> THEN procs
    ELSE LET trackId == Head(its).id
             current == IF Has(procs, trackId) THEN procs[trackId] ELSE <<>>
         IN  ProcessingLoop(Assign(procs, trackId, Append(current, Head(its).process)), Tail(its))

TrackProcessing(s, action) == [s EXCEPT !.processes = ProcessingLoop(s.processes, action.items)]

\* processes.splice(processes.indexOf(completedProcess), 1)
RemoveProcess(processes, completedProcess) == splice1(processes, IndexOf(processes, completedProcess) - 1)

RECURSIVE UpdateLoop(_, _)
\* the loop of TRACK_UPDATE over action.items, on [tracks, processes]
UpdateLoop(st, its) ==
    IF its = <<>> THEN st
    ELSE LET trackItem == Head(its)
             track     == [f \in (DOMAIN trackItem) \ {"completedProcess"} |-> trackItem[f]]
             tracks    == OAssign(st.tracks, track.id, Spread(OSpreadOf(st.tracks, track.id), track))
             processes == IF Has(st.processes, track.id) THEN RemoveProcess(st.processes[track.id], trackItem.completedProcess) ELSE <<>>
             procs     == IF ~Has(st.processes, track.id) THEN st.processes
                          ELSE IF Len(processes) = 0 THEN Delete(st.processes, track.id)
                          ELSE Assign(st.processes, track.id, processes)
         IN  UpdateLoop([tracks |-> tracks, processes |-> procs], Tail(its))

TrackUpdate(s, action) ==
    LET r == UpdateLoop([tracks |-> s.tracks, processes |-> s.processes], action.items)
    IN  [s EXCEPT !.tracks = r.tracks, !.processes = r.processes]

SetArtwork(s, action) == [s EXCEPT !.artwork = Spread(s.artwork, action.items)]

RECURSIVE MergeLoop(_, _, _)
\* for (id of ids) tracks[id] = { ...tracks[id], ...fields[id] }
MergeLoop(tracks, ids, fields) ==
    IF ids = <<>> THEN tracks
    ELSE MergeLoop(OAssign(tracks, Head(ids), Spread(OSpreadOf(tracks, Head(ids)), fields[Head(ids)])), Tail(ids), fields)

\* action.items of AUTOFIX_FIELDS is { trackId: fixedFields }, given as [ids, fields]
AutofixFields(s, action) == [s EXCEPT !.tracks = MergeLoop(s.tracks, action.items.ids, action.items.fields)]

ReplaceKnowns(s, action) == [s EXCEPT !.knownValues = normalizeKnownValues(action.knowns)]

ToggleSelectAll(s, action) == [s EXCEPT !.selectedTracks = IF action.toggle THEN s.tracks.keys ELSE <<>>]

ToggleSelect(s, action) ==
    [s EXCEPT !.selectedTracks = IF action.toggle THEN union(s.selectedTracks, action.tracks)
                                 ELSE difference(s.selectedTracks, action.tracks)]

ClearSelected(s, action) == [s EXCEPT !.selectedTracks = <<>>]

\* arrayMove exchanging the two elements
arrayMoveSwap(arr, oldIndex, newIndex) ==
    [i \in 1..Len(arr) |-> IF i = oldIndex + 1 THEN arr[newIndex + 1] ELSE IF i = newIndex + 1 THEN arr[oldIndex + 1] ELSE arr[i]]

\* arrayMove of react-sortable-hoc for indices inside the array (0-based)
arrayMove(arr, oldIndex, newIndex) ==
    LET x    == arr[oldIndex + 1]
        rest == SubSeq(arr, 1, oldIndex) \o SubSeq(arr, oldIndex + 2, Len(arr))
    IN  SubSeq(rest, 1, newIndex) \o <<x>> \o SubSeq(rest, newIndex + 1, Len(rest))

ReorderGroups(s, action) == [s EXCEPT !.trackTree = arrayMove(s.trackTree, action.indicies.oldIndex, action.indicies.newIndex)]

\* the tracks map after the loop of NUMBER_SELECTED
NumberedTracks(s) ==
    LET nums == computeTrackNumbers(s)
    IN  MergeLoop(s.tracks, [i \in 1..Len(nums) |-> nums[i].id],
                  [id \in {nums[i].id : i \in 1..Len(nums)} |->
                      LET e == nums[CHOOSE i \in 1..Len(nums) : nums[i].id = id] IN e])

NumberSelected(s, action) == [s EXCEPT !.tracks = NumberedTracks(s)]

\* ModifyTargets without the selection
ModifyTargetsFocusedOnly(s, focusedTrackID) == <<focusedTrackID>>

\* the ids MODIFY_FIELD writes the field of
ModifyTargets(s, focusedTrackID) == onSelectedTracks(s, focusedTrackID)

\* ModifyField writing the pristine records too
ModifyFieldPristine(s, action) ==
    LET ids == ModifyTargets(s, action.focusedTrackID)
    IN  [s EXCEPT !.tracks = MergeLoop(s.tracks, ids, [id \in Range(ids) |-> (action.field :> action.value)]),
                  !.tracksPristine = [id \in DOMAIN s.tracksPristine |->
                                         IF id \in Range(ids) THEN Spread(s.tracksPristine[id], action.field :> action.value)
                                         ELSE s.tracksPristine[id]]]

ModifyField(s, action) ==
    LET ids == ModifyTargets(s, action.focusedTrackID)
    IN  [s EXCEPT !.tracks = MergeLoop(s.tracks, ids, [id \in Range(ids) |-> (action.field :> action.value)])]

ArtworkSelect(s, action) ==
    [s EXCEPT !.tracks = OAssign(s.tracks, action.focusedTrackID,
                                 Spread(OSpreadOf(s.tracks, action.focusedTrackID), [artworkSelected |-> action.index]))]

\* OffsetSelected keeping the index as it is
OffsetSelectedKept(track, index) == IF "artworkSelected" \in DOMAIN track THEN track.artworkSelected ELSE JNaN

\* currIndex === index ? null : currIndex <= index ? currIndex : currIndex - 1
OffsetSelected(track, index) ==
    IF "artworkSelected" \notin DOMAIN track THEN JNaN
    ELSE LET currIndex == track.artworkSelected
         IN  IF currIndex = JNaN THEN JNaN
             ELSE IF currIndex = JNull THEN JNull
             ELSE IF currIndex = index THEN JNull
             ELSE IF currIndex <= index THEN currIndex
             ELSE currIndex - 1

\* [...track.artwork] raises a TypeError when track.artwork is undefined
ArtworkRemoveThrows(s, action) == "artwork" \notin DOMAIN OSpreadOf(s.tracks, action.focusedTrackID)

ArtworkRemove(s, action) ==
    LET track == OSpreadOf(s.tracks, action.focusedTrackID)
        new   == Spread(track, [artwork |-> splice1(track.artwork, action.index),
                                artworkSelected |-> OffsetSelected(track, action.index)])
    IN  [s EXCEPT !.tracks = OAssign(s.tracks, action.focusedTrackID, new)]

RECURSIVE ArtworkAddLoop(_, _, _)
ArtworkAddLoop(tracks, ids, artKey) ==
    IF ids = <<>> THEN tracks
    ELSE LET track    == OSpreadOf(tracks, Head(ids))
             existing == IF "artwork" \in DOMAIN track THEN track.artwork ELSE <<>>
             new      == Spread(track, [artwork |-> Append(existing, artKey), artworkSelected |-> Len(existing)])
         IN  ArtworkAddLoop(OAssign(tracks, Head(ids), new), Tail(ids), artKey)

\* artKey is the value uuid() returned
ArtworkAdd(s, action, artKey) ==
    [s EXCEPT !.artwork = Assign(s.artwork, artKey, action.artwork),
              !.tracks = ArtworkAddLoop(s.tracks, onSelectedTracks(s, action.focusedTrackID), artKey)]

SaveTracks(s, action) ==
    [s EXCEPT !.saveProcess = [preparing |-> TRUE, targetTracks |-> s.selectedTracks, total |-> Len(s.selectedTracks)]]

SaveProcessing(s, action) == [s EXCEPT !.saveProcess.preparing = FALSE]

\* SavedTargets with union for difference
SavedTargetsUnion(targetTracks, trackIds) == union(targetTracks, trackIds)

\* lodash.difference(state.saveProcess.targetTracks, trackIds)
SavedTargets(targetTracks, trackIds) == difference(targetTracks, trackIds)

TrackSaved(s, action) ==
    LET trackIds == [i \in 1..Len(action.items) |-> action.items[i].id]
    IN  [s EXCEPT !.saveProcess.targetTracks = SavedTargets(s.saveProcess.targetTracks, trackIds)]

(***************************************************************************)
(* reducer(oldState, action)                                               *)
(***************************************************************************)
\* Default returning the initial state
DefaultResets(s, action) == initialState

\* default: no case matches, the copy of oldState is returned as it is
Default(s, action) == s

\* env.uuid: the value uuid() returns; env.path: the path module in the build
reducer(oldState, action, env) ==
    CASE action.type = "TRACK_DETAILS"     -> TrackDetails(oldState, action)
      [] action.type = "TRACK_REMOVED"     -> TrackRemoved(oldState, action)
      [] action.type = "TRACK_PROCESSING"  -> TrackProcessing(oldState, action)
      [] action.type = "TRACK_UPDATE"      -> TrackUpdate(oldState, action)
      [] action.type = "SET_ARTWORK"       -> SetArtwork(oldState, action)
      [] action.type = "AUTOFIX_FIELDS"    -> AutofixFields(oldState, action)
      [] action.type = "REPLACE_KNOWNS"    -> ReplaceKnowns(oldState, action)
      [] action.type = "TOGGLE_SELECT_ALL" -> ToggleSelectAll(oldState, action)
      [] action.type = "TOGGLE_SELECT"     -> ToggleSelect(oldState, action)
      [] action.type = "CLEAR_SELECTED"    -> ClearSelected(oldState, action)
      [] action.type = "REORDER_GROUPS"    -> ReorderGroups(oldState, action)
      [] action.type = "NUMBER_SELECTED"   -> NumberSelected(oldState, action)
      [] action.type = "MODIFY_FIELD"      -> ModifyField(oldState, action)
      [] action.type = "ARTWORK_SELECT"    -> ArtworkSelect(oldState, action)
      [] action.type = "ARTWORK_REMOVE"    -> ArtworkRemove(oldState, action)
      [] action.type = "ARTWORK_ADD"       -> ArtworkAdd(oldState, action, env.uuid)
      [] action.type = "SAVE_TRACKS"       -> SaveTracks(oldState, action)
      [] action.type = "SAVE_PROCESSING"   -> SaveProcessing(oldState, action)
      [] action.type = "TRACK_SAVED"       -> TrackSaved(oldState, action)
      [] OTHER                             -> Default(oldState, action)

\* whether reducer(oldState, action) raises instead of returning
reducerThrows(oldState, action, env) ==
    CASE action.type = "TRACK_DETAILS"  -> computeTrackTreeThrows(TrackDetails(oldState, action).tracks, env.path)
      [] action.type = "TRACK_REMOVED"  -> computeTrackTreeThrows(TrackRemoved(oldState, action).tracks, env.path)
      [] action.type = "ARTWORK_REMOVE" -> ArtworkRemoveThrows(oldState, action)
      [] OTHER                          -> FALSE

\* The object passed as oldState, as it is once reducer has returned.
\* const state = { ...oldState } copies the top level only; a case that does
\* not replace state.tracks before writing state.tracks[id] writes into the
\* tracks object of oldState.
oldStateAfter(oldState, action) ==
    IF action.type = "NUMBER_SELECTED" THEN [oldState EXCEPT !.tracks = NumberedTracks(oldState)]
    ELSE oldState

(***************************************************************************)
(* The payloads the actions are dispatched with.                           *)
(***************************************************************************)
TrackIds == {"t1", "t2", "t3"}

\* number of items in the payload of one action
MaxItems == 2

\* number of keys uuid() can return
MaxUuid == 2

FilePathOf(id) ==
    CASE id = "t1" -> <<"A", "/", "1", ".", "m", "p", "3">>
      [] id = "t2" -> <<"A", "/", "2", ".", "m", "p", "3">>
      [] id = "t3" -> <<"B", "/", "3", ".", "m", "p", "3">>
      [] id = "t4" -> <<"C", "/", "4", ".", "m", "p", "3">>

\* the record the server sends for a track
ServerTrack(id) == [id |-> id, filePath |-> FilePathOf(id), artist |-> IF id = "t3" THEN NullField ELSE "DJ Sy"]

\* the sequences of 1..MaxItems distinct track ids
IdLists == {l \in UNION {[1..n -> TrackIds] : n \in 1..MaxItems} : \A i, j \in 1..Len(l) : i # j => l[i] # l[j]}

Processes == {"artwork", "knowns"}

FieldValues == {"x", "y"}

ArtIndices == {0, 1}

UuidPool == {"u" \o ToString(i) : i \in 1..MaxUuid}

S_DJSy == <<"D", "J", " ", "S", "y">>

S_djsy == <<"d", "j", " ", "s", "y">>

S_DJSY == <<"D", "J", " ", "S", "Y">>

S_DJSi == <<"D", "J", " ", "S", "i">>

KnownsPayloads ==
    { [artists |-> <<S_DJSy>>, publishers |-> <<>>, genres |-> <<>>],
      [artists |-> <<S_DJSy, S_DJSY>>, publishers |-> <<>>, genres |-> <<>>],
      [artists |-> <<S_DJSY, S_DJSy>>, publishers |-> <<>>, genres |-> <<>>],
      [publishers |-> <<S_DJSy>>] }

(***************************************************************************)
(* store.dispatch(action): the store keeps the state the reducer returns;  *)
(* when the reducer raises, the store keeps its state and dispatch raises. *)
(***************************************************************************)
Reduce(action, env) ==
    /\ steps < MaxSteps
    /\ steps' = steps + 1
    /\ last' = action.type
    /\ IF reducerThrows(state, action, env)
       THEN raised' = TRUE /\ state' = state
       ELSE raised' = FALSE /\ state' = reducer(state, action, env)
    /\ UNCHANGED validationVars

\* an action dispatched by the interface, or by the task layer with a
\* payload of its choice
Dispatch(action, env) == Reduce(action, env) /\ UNCHANGED saveVars

\* the environment of a call that neither asks for a uuid nor for a dirname
NoEnv == [uuid |-> "", path |-> "throws"]

\* the path module matters only when some record has no filePath
PathImplsFor(tracks) == IF \E k \in DOMAIN tracks.at : ~HasPath(tracks.at[k]) THEN PathImpls ELSE {"throws"}

TrackDetailsActions == {[type |-> "TRACK_DETAILS", items |-> [i \in 1..Len(l) |-> ServerTrack(l[i])]] : l \in IdLists}

TrackRemovedActions == {[type |-> "TRACK_REMOVED", items |-> [i \in 1..Len(l) |-> [id |-> l[i]]]] : l \in IdLists}

TrackProcessingActions == {[type |-> "TRACK_PROCESSING", items |-> <<[id |-> id, process |-> p]>>] : id \in TrackIds, p \in Processes}

\* a finished process reports the fields it found: the artwork process the
\* keys of the artwork of the track, any process a bpm
TrackUpdateActions ==
    {[type |-> "TRACK_UPDATE", items |-> <<[id |-> id, completedProcess |-> p, bpm |-> "120"]>>] : id \in TrackIds, p \in Processes}
    \cup {[type |-> "TRACK_UPDATE", items |-> <<[id |-> id, completedProcess |-> "artwork", artwork |-> <<"k1", "k2">>]>>] : id \in TrackIds}

SetArtworkActions == {[type |-> "SET_ARTWORK", items |-> ("k1" :> "cover")]}

AutofixFieldsActions ==
    {[type |-> "AUTOFIX_FIELDS", items |-> [ids |-> <<id>>, fields |-> (id :> [artist |-> "DJ Sy"])]] : id \in TrackIds}

ReplaceKnownsActions == {[type |-> "REPLACE_KNOWNS", knowns |-> k] : k \in KnownsPayloads}

ToggleSelectAllActions == {[type |-> "TOGGLE_SELECT_ALL", toggle |-> b] : b \in BOOLEAN}

ToggleSelectActions == {[type |-> "TOGGLE_SELECT", toggle |-> b, tracks |-> l] : b \in BOOLEAN, l \in IdLists}

ClearSelectedActions == {[type |-> "CLEAR_SELECTED"]}

\* the sortable list reports positions of the groups it renders
ReorderGroupsActions(s) ==
    {[type |-> "REORDER_GROUPS", indicies |-> [oldIndex |-> o, newIndex |-> n]] : o, n \in 0..(Len(s.trackTree) - 1)}

NumberSelectedActions == {[type |-> "NUMBER_SELECTED"]}

ModifyFieldActions ==
    {[type |-> "MODIFY_FIELD", focusedTrackID |-> id, field |-> "title", value |-> v] : id \in TrackIds, v \in FieldValues}

ArtworkSelectActions == {[type |-> "ARTWORK_SELECT", focusedTrackID |-> id, index |-> i] : id \in TrackIds, i \in ArtIndices}

ArtworkRemoveActions == {[type |-> "ARTWORK_REMOVE", focusedTrackID |-> id, index |-> i] : id \in TrackIds, i \in ArtIndices}

ArtworkAddActions == {[type |-> "ARTWORK_ADD", focusedTrackID |-> id, artwork |-> "cover"] : id \in TrackIds}

SaveTracksActions == {[type |-> "SAVE_TRACKS"]}

SaveProcessingActions == {[type |-> "SAVE_PROCESSING"]}

TrackSavedActions == {[type |-> "TRACK_SAVED", items |-> [i \in 1..Len(l) |-> [id |-> l[i]]]] : l \in IdLists}

\* an action of a kind the reducer has no case for
OtherActions == {[type |-> "OTHER"]}

DispatchTrackDetails == \E a \in TrackDetailsActions, impl \in PathImplsFor(state.tracks) : Dispatch(a, [uuid |-> "", path |-> impl])

DispatchTrackRemoved == \E a \in TrackRemovedActions, impl \in PathImplsFor(state.tracks) : Dispatch(a, [uuid |-> "", path |-> impl])

DispatchTrackProcessing == \E a \in TrackProcessingActions : Dispatch(a, NoEnv)

DispatchTrackUpdate == \E a \in TrackUpdateActions : Dispatch(a, NoEnv)

DispatchSetArtwork == \E a \in SetArtworkActions : Dispatch(a, NoEnv)

DispatchAutofixFields == \E a \in AutofixFieldsActions : Dispatch(a, NoEnv)

DispatchReplaceKnowns == \E a \in ReplaceKnownsActions : Dispatch(a, NoEnv)

DispatchToggleSelectAll == \E a \in ToggleSelectAllActions : Dispatch(a, NoEnv)

DispatchToggleSelect == \E a \in ToggleSelectActions : Dispatch(a, NoEnv)

DispatchClearSelected == \E a \in ClearSelectedActions : Dispatch(a, NoEnv)

DispatchReorderGroups == \E a \in ReorderGroupsActions(state) : Dispatch(a, NoEnv)

DispatchNumberSelected == \E a \in NumberSelectedActions : Dispatch(a, NoEnv)

DispatchModifyField == \E a \in ModifyFieldActions : Dispatch(a, NoEnv)

DispatchArtworkSelect == \E a \in ArtworkSelectActions : Dispatch(a, NoEnv)

DispatchArtworkRemove == \E a \in ArtworkRemoveActions : Dispatch(a, NoEnv)

\* uuid() returns a key that is not in use
DispatchArtworkAdd == \E a \in ArtworkAddActions, k \in UuidPool \ DOMAIN state.artwork : Dispatch(a, [uuid |-> k, path |-> "throws"])

DispatchSaveTracks == \E a \in SaveTracksActions : Dispatch(a, NoEnv)

DispatchSaveProcessing == \E a \in SaveProcessingActions : Dispatch(a, NoEnv)

DispatchTrackSaved == \E a \in TrackSavedActions : Dispatch(a, NoEnv)

DispatchOther == \E a \in OtherActions : Dispatch(a, NoEnv)

Init ==
    /\ state = initialState
    /\ last = "@@redux/INIT"
    /\ raised = FALSE
    /\ steps = 0
    /\ saveNo = 0
    /\ inflight = {}
    /\ items = <<>>
    /\ value = <<>>
    /\ op = "new"

Next ==
    \/ DispatchTrackDetails
    \/ DispatchTrackRemoved
    \/ DispatchTrackProcessing
    \/ DispatchTrackUpdate
    \/ DispatchSetArtwork
    \/ DispatchAutofixFields
    \/ DispatchReplaceKnowns
    \/ DispatchToggleSelectAll
    \/ DispatchToggleSelect
    \/ DispatchClearSelected
    \/ DispatchReorderGroups
    \/ DispatchNumberSelected
    \/ DispatchModifyField
    \/ DispatchArtworkSelect
    \/ DispatchArtworkRemove
    \/ DispatchArtworkAdd
    \/ DispatchSaveTracks
    \/ DispatchSaveProcessing
    \/ DispatchTrackSaved
    \/ DispatchOther

Spec == Init /\ [][Next]_vars

(***************************************************************************)
(* The store once tracks have been loaded: the states that TRACK_DETAILS   *)
(* actions alone lead to, one track per action, in any order.              *)
(***************************************************************************)
RECURSIVE LoadEach(_, _)
LoadEach(s, l) ==
    IF l = <<>> THEN s
    ELSE LoadEach(TrackDetails(s, [type |-> "TRACK_DETAILS", items |-> <<ServerTrack(Head(l))>>]), Tail(l))

LoadOrders == {l \in UNION {[1..n -> TrackIds] : n \in 0..Cardinality(TrackIds)} : \A i, j \in 1..Len(l) : i # j => l[i] # l[j]}

InitLoaded ==
    /\ state \in {LoadEach(initialState, l) : l \in LoadOrders}
    /\ last = "TRACK_DETAILS"
    /\ raised = FALSE
    /\ steps = 0
    /\ saveNo = 0
    /\ inflight = {}
    /\ items = <<>>
    /\ value = <<>>
    /\ op = "new"

\* loading, removing, selecting, reordering and numbering
NextNumbering ==
    \/ DispatchTrackDetails
    \/ DispatchTrackRemoved
    \/ DispatchToggleSelectAll
    \/ DispatchToggleSelect
    \/ DispatchClearSelected
    \/ DispatchReorderGroups
    \/ DispatchNumberSelected

SpecNumbering == InitLoaded /\ [][NextNumbering]_vars

\* editing, selecting and saving the loaded tracks
NextSaving ==
    \/ DispatchTrackRemoved
    \/ DispatchToggleSelectAll
    \/ DispatchToggleSelect
    \/ DispatchClearSelected
    \/ DispatchModifyField
    \/ DispatchSaveTracks
    \/ DispatchSaveProcessing
    \/ DispatchTrackSaved

\* the tracks of the library in the order the server lists them
ListedOrder == <<"t1", "t2", "t3">>

\* the store after loading the first n listed tracks, one by one
InitLoadedListed ==
    /\ state \in {LoadEach(initialState, SubSeq(ListedOrder, 1, n)) : n \in 0..Len(ListedOrder)}
    /\ last = "TRACK_DETAILS"
    /\ raised = FALSE
    /\ steps = 0
    /\ saveNo = 0
    /\ inflight = {}
    /\ items = <<>>
    /\ value = <<>>
    /\ op = "new"

SpecSaving == InitLoadedListed /\ [][NextSaving]_vars

(***************************************************************************)
(* The store once tracks have been loaded and some, all or none of them    *)
(* have been selected by a TOGGLE_SELECT action.                           *)
(***************************************************************************)
InitSelected ==
    /\ state \in {ToggleSelect(LoadEach(initialState, SubSeq(ListedOrder, 1, n)), a) :
                     n \in 0..Len(ListedOrder), a \in ToggleSelectActions}
    /\ last = "TOGGLE_SELECT"
    /\ raised = FALSE
    /\ steps = 0
    /\ saveNo = 0
    /\ inflight = {}
    /\ items = <<>>
    /\ value = <<>>
    /\ op = "new"

\* selecting, editing fields, receiving known values, actions of no known kind
NextEditing ==
    \/ DispatchToggleSelectAll
    \/ DispatchReplaceKnowns
    \/ DispatchModifyField
    \/ DispatchOther

SpecEditing == InitLoadedListed /\ [][NextEditing]_vars

\* a library of three directories: the listed tracks and one more, loaded
\* one by one
InitThreeGroups ==
    /\ state = LoadEach(initialState, ListedOrder \o <<"t4">>)
    /\ last = "TRACK_DETAILS"
    /\ raised = FALSE
    /\ steps = 0
    /\ saveNo = 0
    /\ inflight = {}
    /\ items = <<>>
    /\ value = <<>>
    /\ op = "new"

\* reordering the groups, then selecting, numbering and editing
NextReordering ==
    \/ DispatchReorderGroups
    \/ DispatchToggleSelectAll
    \/ DispatchNumberSelected
    \/ DispatchModifyField

SpecReordering == InitThreeGroups /\ [][NextReordering]_vars

\* adding, removing and receiving artwork
NextArtwork ==
    \/ DispatchSetArtwork
    \/ DispatchArtworkRemove
    \/ DispatchArtworkAdd

SpecArtwork == InitSelected /\ [][NextArtwork]_vars

(***************************************************************************)
(* The actions the interface sends: the ids of a payload are ids of tracks *)
(* that are in the track map when the action is dispatched. TRACK_DETAILS  *)
(* brings the tracks in.                                                   *)
(***************************************************************************)
Present(ids) == ids \subseteq DOMAIN state.tracks.at

RemovePresent ==
    \E a \in TrackRemovedActions :
        /\ Present({a.items[i].id : i \in 1..Len(a.items)})
        /\ \E impl \in PathImplsFor(state.tracks) : Dispatch(a, [uuid |-> "", path |-> impl])

SelectPresent == \E a \in ToggleSelectActions : Present(Range(a.tracks)) /\ Dispatch(a, NoEnv)

ModifyPresent == \E a \in ModifyFieldActions : Present({a.focusedTrackID}) /\ Dispatch(a, NoEnv)

ArtworkSelectPresent == \E a \in ArtworkSelectActions : Present({a.focusedTrackID}) /\ Dispatch(a, NoEnv)

ArtworkRemovePresent == \E a \in ArtworkRemoveActions : Present({a.focusedTrackID}) /\ Dispatch(a, NoEnv)

ArtworkAddPresent ==
    \E a \in ArtworkAddActions, k \in UuidPool \ DOMAIN state.artwork :
        Present({a.focusedTrackID}) /\ Dispatch(a, [uuid |-> k, path |-> "throws"])

NextPresent ==
    \/ DispatchTrackDetails
    \/ RemovePresent
    \/ SelectPresent
    \/ DispatchToggleSelectAll
    \/ DispatchReorderGroups
    \/ DispatchNumberSelected
    \/ ModifyPresent
    \/ ArtworkSelectPresent
    \/ ArtworkRemovePresent
    \/ ArtworkAddPresent

SpecPresent == InitLoadedListed /\ [][NextPresent]_vars

(***************************************************************************)
(* Saving, with the task layer: it dispatches SAVE_TRACKS and sends the    *)
(* selected tracks to the server, and dispatches TRACK_SAVED for a track   *)
(* when the server reports it saved. saveNo counts the saves begun;        *)
(* inflight holds, per save, the tracks sent and not yet reported. A       *)
(* TRACK_SAVED action carries the saved tracks and nothing of the save.    *)
(***************************************************************************)
BeginSave ==
    /\ \E a \in SaveTracksActions : Reduce(a, NoEnv)
    /\ saveNo' = saveNo + 1
    /\ inflight' = inflight \cup {[save |-> saveNo + 1, id |-> id] : id \in Range(state.selectedTracks)}

DeliverSaved ==
    \E c \in inflight :
        /\ Reduce([type |-> "TRACK_SAVED", items |-> <<[id |-> c.id]>>], NoEnv)
        /\ inflight' = inflight \ {c}
        /\ saveNo' = saveNo

NextOverlap ==
    \/ BeginSave
    \/ DispatchSaveProcessing
    \/ DeliverSaved
    \/ SelectPresent

SpecOverlap == InitSelected /\ [][NextOverlap]_vars

(***************************************************************************)
(* reducer(state, action) on the state of the store, for the actions of    *)
(* given kinds with what the environment can give them: whether every call *)
(* that returns leaves the given fields of the state as they are.          *)
(***************************************************************************)
PathEnvs == {[uuid |-> "", path |-> impl] : impl \in PathImplsFor(state.tracks)}

UuidEnvs == {[uuid |-> k, path |-> "throws"] : k \in UuidPool \ DOMAIN state.artwork}

KeptBy(actions, envs, fields) ==
    \A a \in actions, e \in envs :
        ~reducerThrows(state, a, e) => \A f \in fields : reducer(state, a, e)[f] = state[f]

\* every action of a kind not in kinds leaves the fields as they are
KeptByAllBut(kinds, fields) ==
    /\ "TRACK_DETAILS" \in kinds \/ KeptBy(TrackDetailsActions, PathEnvs, fields)
    /\ "TRACK_REMOVED" \in kinds \/ KeptBy(TrackRemovedActions, PathEnvs, fields)
    /\ "TRACK_PROCESSING" \in kinds \/ KeptBy(TrackProcessingActions, {NoEnv}, fields)
    /\ "TRACK_UPDATE" \in kinds \/ KeptBy(TrackUpdateActions, {NoEnv}, fields)
    /\ "SET_ARTWORK" \in kinds \/ KeptBy(SetArtworkActions, {NoEnv}, fields)
    /\ "AUTOFIX_FIELDS" \in kinds \/ KeptBy(AutofixFieldsActions, {NoEnv}, fields)
    /\ "REPLACE_KNOWNS" \in kinds \/ KeptBy(ReplaceKnownsActions, {NoEnv}, fields)
    /\ "TOGGLE_SELECT_ALL" \in kinds \/ KeptBy(ToggleSelectAllActions, {NoEnv}, fields)
    /\ "TOGGLE_SELECT" \in kinds \/ KeptBy(ToggleSelectActions, {NoEnv}, fields)
    /\ "CLEAR_SELECTED" \in kinds \/ KeptBy(ClearSelectedActions, {NoEnv}, fields)
    /\ "REORDER_GROUPS" \in kinds \/ KeptBy(ReorderGroupsActions(state), {NoEnv}, fields)
    /\ "NUMBER_SELECTED" \in kinds \/ KeptBy(NumberSelectedActions, {NoEnv}, fields)
    /\ "MODIFY_FIELD" \in kinds \/ KeptBy(ModifyFieldActions, {NoEnv}, fields)
    /\ "ARTWORK_SELECT" \in kinds \/ KeptBy(ArtworkSelectActions, {NoEnv}, fields)
    /\ "ARTWORK_REMOVE" \in kinds \/ KeptBy(ArtworkRemoveActions, {NoEnv}, fields)
    /\ "ARTWORK_ADD" \in kinds \/ KeptBy(ArtworkAddActions, UuidEnvs, fields)
    /\ "SAVE_TRACKS" \in kinds \/ KeptBy(SaveTracksActions, {NoEnv}, fields)
    /\ "SAVE_PROCESSING" \in kinds \/ KeptBy(SaveProcessingActions, {NoEnv}, fields)
    /\ "TRACK_SAVED" \in kinds \/ KeptBy(TrackSavedActions, {NoEnv}, fields)
    /\ "OTHER" \in kinds \/ KeptBy(OtherActions, {NoEnv}, fields)

(***************************************************************************)
(* The validation engine (src/app/validate/utils.js).                      *)
(* items: this.items of the Validations collection of the field edited;    *)
(* value: the value of the field; op: the last call made.                  *)
(* The message of a result is presentation and is left out.                *)
(***************************************************************************)
\* a result without autoFix or without fixer has undefined there
NoAutoFix == "undefined"

NoFixer == "undefined"

\* SIMILARITY_CUTOFF = 0.75, in thousandths
SIMILARITY_CUTOFF == 750

\* the ratings string-similarity can give a known value, in thousandths
RatingValues == {0, SIMILARITY_CUTOFF, SIMILARITY_CUTOFF + 1, 1000}

\* the validation types of the artist field, as its validator passes them:
\* CASING is fixed immediately by the fixer that puts the known value
TypeMapping ==
    [ KNOWN   |-> [type |-> "KNOWN",   level |-> "valid",   autoFix |-> NoAutoFix,   fixer |-> NoFixer],
      CASING  |-> [type |-> "CASING",  level |-> "warning", autoFix |-> "immediate", fixer |-> "useKnown"],
      SIMILAR |-> [type |-> "SIMILAR", level |-> "warning", autoFix |-> NoAutoFix,   fixer |-> NoFixer],
      UNKNOWN |-> [type |-> "UNKNOWN", level |-> "warning", autoFix |-> NoAutoFix,   fixer |-> NoFixer] ]

\* the validation types of the other validators of the field
OtherValidations ==
    { [type |-> "SPACES", level |-> "error", autoFix |-> "post_edit", fixer |-> "stripSpaces"],
      [type |-> "NOTE",   level |-> "info",  autoFix |-> NoAutoFix,   fixer |-> NoFixer] }

\* options.knowns for the artist field: state.knownValues.artists, undefined
\* when the known values hold no such category
KnownsOf(s) ==
    IF "artists" \in DOMAIN s.knownValues
    THEN [defined |-> TRUE, clean |-> s.knownValues.artists.clean, normal |-> s.knownValues.artists.normal]
    ELSE [defined |-> FALSE]

\* the lowercase names a plain object inherits from Object.prototype
S_constructor == <<"c", "o", "n", "s", "t", "r", "u", "c", "t", "o", "r">>

ObjectPrototypeKeys == {S_constructor}

\* what o[key] gives for an inherited name: a function, not a string
Inherited == <<"[native code]">>

Undefined == <<"undefined">>

\* knowns.normal[key]: normal is a plain object
NormalAt(normal, key) ==
    IF key \in DOMAIN normal THEN normal[key]
    ELSE IF key \in ObjectPrototypeKeys THEN Inherited
    ELSE Undefined

\* Validations.add(validation, { fields }) on items its
add(its, validation, fields) == Append(its, [type |-> validation.type, level |-> validation.level,
                                             autoFix |-> validation.autoFix, fixer |-> validation.fixer, fields |-> fields])

\* Validations.merge(validations)
merge(its, other) == its \o other

\* levelPresedence: the levels in order of importance
levelPresedence == <<"error", "warning", "info", "valid">>

\* what find gives when no element passes
NoLevel == "undefined"

\* level giving the level of the first result
levelOfFirst(its) == IF its = <<>> THEN NoLevel ELSE its[1].level

\* Validations.level(): levelPresedence.find(l => levels.includes(l))
level(its) ==
    LET levels == {its[i].level : i \in 1..Len(its)}
        found  == {i \in 1..Len(levelPresedence) : levelPresedence[i] \in levels}
    IN  IF found = {} THEN NoLevel
        ELSE levelPresedence[CHOOSE i \in found : \A j \in found : i <= j]

RECURSIVE join(_)
\* similarKnowns.join(', ')
join(ss) ==
    IF ss = <<>> THEN <<>>
    ELSE IF Len(ss) = 1 THEN ss[1]
    ELSE ss[1] \o <<",", " ">> \o join(Tail(ss))

\* matches.ratings.filter(m => m.rating > SIMILARITY_CUTOFF).map(m => m.target)
SimilarKnowns(clean, ratings) ==
    LET idx == SeqFilter([i \in 1..Len(clean) |-> i], {i \in 1..Len(clean) : ratings[i] > SIMILARITY_CUTOFF})
    IN  [i \in 1..Len(idx) |-> clean[idx[i]]]

\* validateFromKnowns(value, { knowns, typeMapping }): the items of the
\* collection returned; ratings[i] is the rating findBestMatch gives clean[i]
validateFromKnowns(v, knowns, typeMapping, ratings) ==
    IF ~knowns.defined THEN <<>>
    ELSE IF Contains(knowns.clean, v) THEN add(<<>>, typeMapping.KNOWN, [value |-> v])
    ELSE LET knownValue == NormalAt(knowns.normal, toLowerCase(v))
         IN  IF knownValue # Undefined THEN add(<<>>, typeMapping.CASING, [value |-> v, knownValue |-> knownValue])
             ELSE LET similarKnowns == IF Len(knowns.clean) > 0 THEN SimilarKnowns(knowns.clean, ratings) ELSE <<>>
                  IN  IF Len(similarKnowns) > 0
                      THEN add(<<>>, typeMapping.SIMILAR,
                               [value |-> v, similarKnowns |-> similarKnowns, similarList |-> join(similarKnowns)])
                      ELSE add(<<>>, typeMapping.UNKNOWN, [value |-> v])

\* the fixers: useKnown puts the known value that matches but for the case,
\* stripSpaces takes the spaces out
ApplyFixer(fixer, v, knowns) ==
    CASE fixer = "useKnown"    -> IF knowns.defined /\ toLowerCase(v) \in DOMAIN knowns.normal THEN knowns.normal[toLowerCase(v)] ELSE v
      [] fixer = "stripSpaces" -> SeqFilter(v, Range(v) \ {" "})
      [] OTHER                 -> v

\* this.items.filter(...) once fixer has changed the value
ItemsAfterFix(its, fixer) ==
    LET idx == SeqFilter([i \in 1..Len(its) |-> i], {i \in 1..Len(its) : its[i].fixer = fixer})
    IN  [i \in 1..Len(idx) |-> its[idx[i]]]

RECURSIVE AutoFixLoop(_, _, _, _)
\* for (const fixer of fixers) { ... }
AutoFixLoop(fixers, newValue, its, knowns) ==
    IF fixers = <<>> THEN [value |-> newValue, items |-> its]
    ELSE LET fixer == Head(fixers)
             fixedValue == ApplyFixer(fixer, newValue, knowns)
         IN  AutoFixLoop(Tail(fixers), fixedValue, IF fixedValue # newValue THEN ItemsAfterFix(its, fixer) ELSE its, knowns)

\* this.items.filter(v => types.includes(v.autoFix)).map(v => v.fixer)
FixersOf(its, types) ==
    LET idx == SeqFilter([i \in 1..Len(its) |-> i], {i \in 1..Len(its) : its[i].autoFix \in types})
    IN  [i \in 1..Len(idx) |-> its[idx[i]].fixer]

\* autoFix returning its argument
autoFixNothing(its, v, types, knowns) == [value |-> v, items |-> its]

\* Validations.autoFix(value, types): the value returned and this.items after
autoFix(its, v, types, knowns) ==
    LET fixers == FixersOf(its, types)
    IN  IF Len(fixers) = 0 THEN [value |-> v, items |-> its]
        ELSE AutoFixLoop(fixers, v, its, knowns)

AutoFixTypeSets == {{"immediate"}, {"post_edit"}, {"immediate", "post_edit"}}

Values == {S_DJSy, S_djsy, S_DJSY, S_DJSi, S_constructor}

RatingsFor(knowns) == IF knowns.defined THEN [1..Len(knowns.clean) -> RatingValues] ELSE {<<>>}

Validate ==
    /\ \E v \in Values, r \in RatingsFor(KnownsOf(state)) :
          /\ items' = validateFromKnowns(v, KnownsOf(state), TypeMapping, r)
          /\ value' = v
    /\ op' = "validateFromKnowns"
    /\ UNCHANGED storeVars

Add ==
    /\ Len(items) < MaxResults
    /\ \E validation \in OtherValidations : items' = add(items, validation, EmptyObj)
    /\ op' = "add"
    /\ UNCHANGED <<value, storeVars>>

Merge ==
    /\ \E r \in RatingsFor(KnownsOf(state)) :
          LET other == validateFromKnowns(value, KnownsOf(state), TypeMapping, r)
          IN  /\ Len(items) + Len(other) <= MaxResults
              /\ items' = merge(items, other)
    /\ op' = "merge"
    /\ UNCHANGED <<value, storeVars>>

AutoFix ==
    /\ \E types \in AutoFixTypeSets :
          LET r == autoFix(items, value, types, KnownsOf(state))
          IN  items' = r.items /\ value' = r.value
    /\ op' = "autoFix"
    /\ UNCHANGED storeVars

\* the field of a track is validated against the known values of a store
\* that has received none, or one REPLACE_KNOWNS action
InitValidation ==
    /\ state \in {initialState} \cup {ReplaceKnowns(initialState, a) : a \in ReplaceKnownsActions}
    /\ last = "@@redux/INIT"
    /\ raised = FALSE
    /\ steps = 0
    /\ saveNo = 0
    /\ inflight = {}
    /\ items = <<>>
    /\ value \in Values
    /\ op = "new"

NextValidation == Validate \/ Add \/ Merge \/ AutoFix

SpecValidation == InitValidation /\ [][NextValidation]_vars

(***************************************************************************)
(* Properties of the store.                                                *)
(***************************************************************************)
SetOf(s) == Range(s)

NoDuplicates(s) == \A i, j \in 1..Len(s) : i # j => s[i] # s[j]

\* the value of field f of track id in s, <<"undefined">> when there is none
FieldOf(s, id, f) ==
    IF OHas(s.tracks, id) /\ f \in DOMAIN s.tracks.at[id] THEN <<"value", s.tracks.at[id][f]>> ELSE <<"undefined">>

\* the state object passed to the reducer is, after the call, as it was before
InputUnmodifiedBy(actions) == \A a \in actions : oldStateAfter(state, a) = state

\* C1: for every action kind, the reducer leaves the state object passed to
\* it, and everything nested in it, as it was before the call.
C1_InputStateUnmodified ==
    /\ InputUnmodifiedBy(TrackDetailsActions)
    /\ InputUnmodifiedBy(TrackRemovedActions)
    /\ InputUnmodifiedBy(TrackProcessingActions)
    /\ InputUnmodifiedBy(TrackUpdateActions)
    /\ InputUnmodifiedBy(SetArtworkActions)
    /\ InputUnmodifiedBy(AutofixFieldsActions)
    /\ InputUnmodifiedBy(ReplaceKnownsActions)
    /\ InputUnmodifiedBy(ToggleSelectAllActions)
    /\ InputUnmodifiedBy(ToggleSelectActions)
    /\ InputUnmodifiedBy(ClearSelectedActions)
    /\ InputUnmodifiedBy(ReorderGroupsActions(state))
    /\ InputUnmodifiedBy(NumberSelectedActions)
    /\ InputUnmodifiedBy(ModifyFieldActions)
    /\ InputUnmodifiedBy(ArtworkSelectActions)
    /\ InputUnmodifiedBy(ArtworkRemoveActions)
    /\ InputUnmodifiedBy(ArtworkAddActions)
    /\ InputUnmodifiedBy(SaveTracksActions)
    /\ InputUnmodifiedBy(SaveProcessingActions)
    /\ InputUnmodifiedBy(TrackSavedActions)
    /\ InputUnmodifiedBy(OtherActions)

\* C2: the reducer never raises: every dispatch, also one with stale or
\* missing track ids or artwork indices, returns a state.
C2_ReducerNeverRaises == raised = FALSE

AllHavePath(s) == \A k \in DOMAIN s.tracks.at : HasPath(s.tracks.at[k])

PathOfId(s, id) == s.tracks.at[id].filePath

\* the least file path of the tracks of group g
FirstPathOf(s, g) == CHOOSE p \in {PathOfId(s, id) : id \in SetOf(g.tracks)} : \A id \in SetOf(g.tracks) : ~StrLess(PathOfId(s, id), p)

\* the groups are in the order in which their directories first appear in
\* the tracks sorted by file path
GroupsInPathOrder(s) ==
    \A i, j \in 1..Len(s.trackTree) : i < j => StrLess(FirstPathOf(s, s.trackTree[i]), FirstPathOf(s, s.trackTree[j]))

\* each group lists its tracks in ascending file path order
GroupTracksAscending(s) ==
    \A g \in SetOf(s.trackTree) : \A i, j \in 1..Len(g.tracks) : i < j => ~StrLess(PathOfId(s, g.tracks[j]), PathOfId(s, g.tracks[i]))

AfterLoadOrRemove == last \in {"TRACK_DETAILS", "TRACK_REMOVED"} /\ ~raised /\ AllHavePath(state)

\* C3: after load tracks or remove tracks, whatever the order of loading, the
\* groups are ordered by the first appearance of their directory in the tracks
\* sorted by file path, and each group lists its tracks in file path order.
C3_TreeInPathOrder == AfterLoadOrRemove => GroupsInPathOrder(state) /\ GroupTracksAscending(state)

\* the ids of the tracks of the tree
TreeIds(s) == UNION {SetOf(s.trackTree[i].tracks) : i \in 1..Len(s.trackTree)}

\* the positions of the groups of the tree that hold a selected track
Surviving(s) == {g \in 1..Len(s.trackTree) : SetOf(s.trackTree[g].tracks) \cap SetOf(s.selectedTracks) # {}}

\* the 1-based position of group g among the surviving groups
DiscPosition(s, g) == Cardinality({h \in Surviving(s) : h <= g})

\* the 1-based position of the k-th track of group g among its selected tracks
TrackPosition(s, g, k) == Cardinality({m \in 1..k : s.trackTree[g].tracks[m] \in SetOf(s.selectedTracks)})

SelectedIn(s, g) == Cardinality(SetOf(s.trackTree[g].tracks) \cap SetOf(s.selectedTracks))

\* what NUMBER_SELECTED must have made of state s, given the state s2 it returned
NumberedAsClaimed(s, s2) ==
    LET nums == computeTrackNumbers(s)
    IN  /\ {nums[i].id : i \in 1..Len(nums)} = SetOf(s.selectedTracks) \cap TreeIds(s)
        /\ NoDuplicates([i \in 1..Len(nums) |-> nums[i].id])
        /\ \A g \in Surviving(s) : \A k \in 1..Len(s.trackTree[g].tracks) :
              LET id == s.trackTree[g].tracks[k]
              IN  id \in SetOf(s.selectedTracks) =>
                     /\ FieldOf(s2, id, "track") = <<"value", formatTrackNumbers(TrackPosition(s, g, k), SelectedIn(s, g))>>
                     /\ FieldOf(s2, id, "disc") = <<"value", formatTrackNumbers(DiscPosition(s, g), Cardinality(Surviving(s)))>>
        /\ \A id \in DOMAIN s.tracks.at :
              id \notin SetOf(s.selectedTracks) =>
                 FieldOf(s2, id, "track") = FieldOf(s, id, "track") /\ FieldOf(s2, id, "disc") = FieldOf(s, id, "disc")

\* C4: number-selected emits entries only for the selected ids of the tree,
\* drops the groups without a selected track, numbers the selected tracks of
\* each surviving group 1..k of k in the group's order and the surviving
\* groups 1..n of n; unselected tracks keep their track and disc fields.
C4_NumberSelected == \A a \in NumberSelectedActions : NumberedAsClaimed(state, reducer(state, a, NoEnv))

\* numbering has acted on a tree of two groups with an unselected track in between
C4_Witness ==
    /\ last = "NUMBER_SELECTED"
    /\ Len(state.trackTree) = 2
    /\ Cardinality(Surviving(state)) = 2
    /\ \E id \in TreeIds(state) : id \notin SetOf(state.selectedTracks)
    /\ \E id \in SetOf(state.selectedTracks) : FieldOf(state, id, "disc") = <<"value", "2/2">>

\* the scenario of C5: the three tracks loaded, then all selected, then numbered
Scenario ==
    /\ steps = 2
    /\ last = "NUMBER_SELECTED"
    /\ SetOf(state.tracks.keys) = TrackIds
    /\ SetOf(state.selectedTracks) = TrackIds

TrackNumbersOfScenario ==
    /\ FieldOf(state, "t1", "track") = <<"value", "1/2">>
    /\ FieldOf(state, "t2", "track") = <<"value", "2/2">>
    /\ FieldOf(state, "t3", "track") = <<"value", "1/1">>

\* C5 as stated: A/1.mp3, A/2.mp3 and B/3.mp3 loaded, all selected and
\* numbered: both tracks of A have disc 1 of 2, the track of B has disc 1 of
\* 1, and the track numbers are 1 of 2, 2 of 2 and 1 of 1.
C5_ScenarioAsStated ==
    Scenario =>
        /\ FieldOf(state, "t1", "disc") = <<"value", "1/2">>
        /\ FieldOf(state, "t2", "disc") = <<"value", "1/2">>
        /\ FieldOf(state, "t3", "disc") = <<"value", "1/1">>
        /\ TrackNumbersOfScenario

\* C5 as amended: the track numbers are 1 of 2, 2 of 2 and 1 of 1; the disc
\* total is 2 for all three, the two tracks of A share a disc position and
\* the track of B has the other; loaded in the order listed, A is disc 1 of 2
\* and B is disc 2 of 2.
C5_ScenarioAmended ==
    Scenario =>
        /\ TrackNumbersOfScenario
        /\ FieldOf(state, "t1", "disc") = FieldOf(state, "t2", "disc")
        /\ {FieldOf(state, "t1", "disc"), FieldOf(state, "t3", "disc")} = {<<"value", "1/2">>, <<"value", "2/2">>}
        /\ state.tracks.keys = <<"t1", "t2", "t3">> =>
              FieldOf(state, "t1", "disc") = <<"value", "1/2">> /\ FieldOf(state, "t3", "disc") = <<"value", "2/2">>

\* the scenario, with the tracks loaded in the order listed
C5_Witness == Scenario /\ state.tracks.keys = <<"t1", "t2", "t3">> /\ FieldOf(state, "t3", "disc") = <<"value", "2/2">>

\* the fields of the records of id in s and s2
FieldsOf(s, s2, id) == (DOMAIN OSpreadOf(s.tracks, id)) \cup (DOMAIN OSpreadOf(s2.tracks, id))

\* what MODIFY_FIELD with action a must have made of state s, given the state s2 it returned
ModifiedAsClaimed(s, a, s2) ==
    LET targets == SetOf(s.selectedTracks) \cup {a.focusedTrackID}
    IN  /\ DOMAIN s2.tracks.at = (DOMAIN s.tracks.at) \cup targets
        /\ \A id \in targets :
              /\ FieldOf(s2, id, a.field) = <<"value", a.value>>
              /\ \A f \in FieldsOf(s, s2, id) \ {a.field} : FieldOf(s2, id, f) = FieldOf(s, id, f)
        /\ \A id \in (DOMAIN s.tracks.at) \ targets : s2.tracks.at[id] = s.tracks.at[id]
        /\ s2.selectedTracks = s.selectedTracks
        /\ s2.trackTree = s.trackTree
        /\ s2.tracksPristine = s.tracksPristine
        /\ s2.artwork = s.artwork
        /\ s2.saveProcess = s.saveProcess

\* C6: modify-field sets the field on exactly the tracks of the selection
\* and the focused track; their other fields, the other tracks, the
\* selection, the tree, the pristine tracks, the artwork and the save process
\* are unchanged.
C6_ModifyField == \A a \in ModifyFieldActions : ModifiedAsClaimed(state, a, reducer(state, a, NoEnv))

\* an edit has reached two selected tracks and left a third track alone
C6_Witness ==
    /\ last = "MODIFY_FIELD"
    /\ Len(state.selectedTracks) >= 2
    /\ \A id \in SetOf(state.selectedTracks) : FieldOf(state, id, "title") = <<"value", "x">>
    /\ \E id \in DOMAIN state.tracks.at : FieldOf(state, id, "title") = <<"undefined">>

\* one step of the store, as C7 allows it
SaveProcessStep ==
    LET sp  == state.saveProcess
        sp2 == state'.saveProcess
    IN  /\ IF last' = "SAVE_TRACKS"
           THEN sp2.targetTracks = state.selectedTracks /\ sp2.total = Len(state.selectedTracks)
           ELSE sp2.total = sp.total /\ SetOf(sp2.targetTracks) \subseteq SetOf(sp.targetTracks)
        /\ sp2.total # JUndef => Len(sp2.targetTracks) <= sp2.total /\ NoDuplicates(sp2.targetTracks)

\* C7: begin save captures the selection and its size; until the next begin
\* save, under any interleaving of the other actions, total keeps that size
\* and targetTracks only shrinks, so it stays a subset of the captured
\* selection and never has more than total elements.
C7_SaveProcess == [][SaveProcessStep]_vars

\* a save of several tracks of which some, not all, have been reported saved
C7_Witness ==
    /\ last = "TRACK_SAVED"
    /\ state.saveProcess.total >= 2
    /\ Len(state.saveProcess.targetTracks) > 0
    /\ Len(state.saveProcess.targetTracks) < state.saveProcess.total

(***************************************************************************)
(* Properties of the validation engine.                                    *)
(***************************************************************************)
RECURSIVE ChangedBy(_, _, _)
\* the fixers of the sequence that, applied one after the other from value
\* v on, return a value different from the one they are given
ChangedBy(fixers, v, knowns) ==
    IF fixers = <<>> THEN {}
    ELSE LET w == ApplyFixer(Head(fixers), v, knowns)
         IN  (IF w # v THEN {Head(fixers)} ELSE {}) \cup ChangedBy(Tail(fixers), w, knowns)

\* the results of its whose fixer is not in gone, in their order
Without(its, gone) ==
    LET idx == SeqFilter([i \in 1..Len(its) |-> i], {i \in 1..Len(its) : its[i].fixer \notin gone})
    IN  [i \in 1..Len(idx) |-> its[idx[i]]]

\* C8: autoFix removes a result exactly when its fixer was applied and
\* returned a value different from its input: no result with that fixer is
\* left, and every other result stays, in the original order.
C8_AutoFixRemovesFixed ==
    \A types \in AutoFixTypeSets :
        autoFix(items, value, types, KnownsOf(state)).items
            = Without(items, ChangedBy(FixersOf(items, types), value, KnownsOf(state)))

\* the collection holds a CASING result for the value, with a known value of the table
HoldsCasingFor(its, v, knowns) ==
    \E i \in 1..Len(its) :
        /\ its[i].type = "CASING"
        /\ its[i].autoFix = "immediate"
        /\ its[i].fields.value = v
        /\ knowns.defined
        /\ Contains(knowns.clean, its[i].fields.knownValue)

CasingKnownValue(its, v) == its[CHOOSE i \in 1..Len(its) : its[i].type = "CASING" /\ its[i].fields.value = v].fields.knownValue

\* C9: on a collection holding an immediate CASING result, autoFix with the
\* class immediate returns the canonical known value, and a second autoFix on
\* that value returns it unchanged; on a collection with no result of an
\* accepted class autoFix returns its input and leaves the collection as it is.
C9_AutoFixConverges ==
    /\ HoldsCasingFor(items, value, KnownsOf(state)) =>
          LET first  == autoFix(items, value, {"immediate"}, KnownsOf(state))
              second == autoFix(first.items, first.value, {"immediate"}, KnownsOf(state))
          IN  /\ first.value = CasingKnownValue(items, value)
              /\ second.value = first.value
    /\ \A types \in AutoFixTypeSets :
          (\A i \in 1..Len(items) : items[i].autoFix \notin types) =>
              autoFix(items, value, types, KnownsOf(state)) = [value |-> value, items |-> items]

\* autoFix has put the known value in the place of a value that differed by case
C9_Witness ==
    /\ op = "autoFix"
    /\ \E i \in 1..Len(items) :
          /\ items[i].type = "CASING"
          /\ items[i].fields.value # value
          /\ items[i].fields.knownValue = value

\* the result validateFromKnowns must give value v, by the first rule that matches
ValidatedAsClaimed(v, knowns, ratings, its) ==
    IF ~knowns.defined THEN its = <<>>
    ELSE /\ Len(its) = 1
         /\ its[1].fields.value = v
         /\ IF v \in SetOf(knowns.clean) THEN its[1].type = "KNOWN"
            ELSE IF toLowerCase(v) \in DOMAIN knowns.normal
            THEN its[1].type = "CASING" /\ its[1].fields.knownValue = knowns.normal[toLowerCase(v)]
            ELSE IF \E i \in 1..Len(knowns.clean) : ratings[i] > SIMILARITY_CUTOFF
            THEN /\ its[1].type = "SIMILAR"
                 /\ its[1].fields.similarKnowns = SimilarKnowns(knowns.clean, ratings)
            ELSE its[1].type = "UNKNOWN"

\* C10: for every value and every knowns table validateFromKnowns returns
\* exactly one result, by the first matching rule of KNOWN (the value is in
\* clean), CASING (its lowercase is a key of normal), SIMILAR (a clean entry
\* rates above the cutoff), UNKNOWN; an empty collection when knowns is
\* undefined; UNKNOWN for a value that matches nothing when clean is empty.
C10_ValidateFromKnowns ==
    \A v \in Values, r \in RatingsFor(KnownsOf(state)) :
        ValidatedAsClaimed(v, KnownsOf(state), r, validateFromKnowns(v, KnownsOf(state), TypeMapping, r))

\* no entry of clean equals v, exactly or but for the case
NoCaseMatch(v, knowns) ==
    \A i \in 1..Len(knowns.clean) : knowns.clean[i] # v /\ toLowerCase(knowns.clean[i]) # toLowerCase(v)

\* the entries of clean that rate strictly above 0.75, in the order of clean
RatedAbove(clean, ratings) ==
    LET idx == SeqFilter([i \in 1..Len(clean) |-> i], {i \in 1..Len(clean) : ratings[i] >= SIMILARITY_CUTOFF + 1})
    IN  [i \in 1..Len(idx) |-> clean[idx[i]]]

StrictCutoffFor(v, knowns, ratings, its) ==
    /\ Len(its) = 1
    /\ IF RatedAbove(knowns.clean, ratings) = <<>>
       THEN its[1].type = "UNKNOWN"
       ELSE its[1].type = "SIMILAR" /\ its[1].fields.similarKnowns = RatedAbove(knowns.clean, ratings)

\* C11: for a value that no entry of clean equals, exactly or but for the
\* case, a known entry counts as similar only when its rating is strictly
\* greater than 0.75: the result is SIMILAR and lists exactly the entries
\* rated above 0.75 (one rated 0.751 is listed), and it is UNKNOWN when no
\* entry is rated above 0.75 (all rated exactly 0.75 included).
C11_StrictCutoff ==
    \A v \in Values, r \in RatingsFor(KnownsOf(state)) :
        KnownsOf(state).defined /\ NoCaseMatch(v, KnownsOf(state))
            => StrictCutoffFor(v, KnownsOf(state), r, validateFromKnowns(v, KnownsOf(state), TypeMapping, r))

\* C11 for the values that are not names of Object.prototype members
StrictCutoffOwnNames ==
    \A v \in Values \ ObjectPrototypeKeys, r \in RatingsFor(KnownsOf(state)) :
        KnownsOf(state).defined /\ NoCaseMatch(v, KnownsOf(state))
            => StrictCutoffFor(v, KnownsOf(state), r, validateFromKnowns(v, KnownsOf(state), TypeMapping, r))

\* a value is rated exactly 0.75 and the result is UNKNOWN
StrictCutoffSeen ==
    /\ op = "validateFromKnowns"
    /\ value = S_DJSi
    /\ KnownsOf(state).defined /\ Len(KnownsOf(state).clean) > 0
    /\ items[1].type = "UNKNOWN"

\* the place of a level in the fixed order valid < info < warning < error
Severity(l) == CASE l = "error" -> 4 [] l = "warning" -> 3 [] l = "info" -> 2 [] l = "valid" -> 1 [] OTHER -> 0

\* l is the most severe level among the results its, no level when there are none
MostSevereOf(its, l) ==
    IF its = <<>> THEN l = NoLevel
    ELSE /\ \E i \in 1..Len(its) : its[i].level = l
         /\ \A i \in 1..Len(its) : Severity(its[i].level) <= Severity(l)

Reversed(s) == [i \in 1..Len(s) |-> s[Len(s) + 1 - i]]

\* both is a followed by b, each in its order
AppendedAfter(a, b, both) ==
    /\ Len(both) = Len(a) + Len(b)
    /\ \A i \in 1..Len(a) : both[i] = a[i]
    /\ \A i \in 1..Len(b) : both[Len(a) + i] = b[i]

\* C12: on every collection built by add and merge calls, level() is the
\* most severe level present in the order error > warning > info > valid
\* (error when an error is present, valid when all are valid, no level when
\* the collection is empty), whatever the order of the items and whichever
\* collection is merged into the other; merge puts the items of the other
\* collection after the existing ones, in their order.
C12_LevelMostSevere ==
    /\ MostSevereOf(items, level(items))
    /\ level(Reversed(items)) = level(items)
    /\ (\E i \in 1..Len(items) : items[i].level = "error") => level(items) = "error"
    /\ (items # <<>> /\ \A i \in 1..Len(items) : items[i].level = "valid") => level(items) = "valid"
    /\ items = <<>> => level(items) = NoLevel
    /\ \A r \in RatingsFor(KnownsOf(state)) :
          LET other == validateFromKnowns(value, KnownsOf(state), TypeMapping, r)
          IN  /\ AppendedAfter(items, other, merge(items, other))
              /\ level(merge(items, other)) = level(merge(other, items))
              /\ MostSevereOf(merge(items, other), level(merge(items, other)))

\* a merge has given a collection of a valid, an error and a valid result
C12_Witness ==
    /\ op = "merge"
    /\ Len(items) = 3
    /\ items[1].level = "valid" /\ items[2].level = "error" /\ items[3].level = "valid"
    /\ level(items) = "error"

(***************************************************************************)
(* Properties of the known values, the artwork, the pristine tracks, the   *)
(* processes and the order of the tree.                                    *)
(***************************************************************************)
\* normal is the case-fold of clean, the last entry of a key winning
FoldOf(clean, normal) ==
    /\ DOMAIN normal = {toLowerCase(clean[i]) : i \in 1..Len(clean)}
    /\ \A key \in DOMAIN normal :
          \E i \in 1..Len(clean) :
              /\ normal[key] = clean[i]
              /\ toLowerCase(clean[i]) = key
              /\ \A j \in (i + 1)..Len(clean) : toLowerCase(clean[j]) # key

KnownsFolded(kv) == \A c \in DOMAIN kv : FoldOf(kv[c].clean, kv[c].normal)

\* C13: in every reachable state, for every category of knownValues, normal
\* has exactly the lowercase forms of the entries of clean as keys, each key
\* holding the last entry of clean with that lowercase form; REPLACE_KNOWNS
\* rebuilds the table from its payload (its categories, their lists) and no
\* other action changes knownValues.
C13_KnownsFolded ==
    /\ KnownsFolded(state.knownValues)
    /\ KeptByAllBut({"REPLACE_KNOWNS"}, {"knownValues"})
    /\ \A a \in ReplaceKnownsActions :
          LET kv == reducer(state, a, NoEnv).knownValues
          IN  /\ DOMAIN kv = DOMAIN a.knowns
              /\ \A c \in DOMAIN kv : kv[c].clean = a.knowns[c]
              /\ KnownsFolded(kv)

\* known values with two entries of one lowercase form have been received,
\* and an edit has been made after
C13_Witness ==
    /\ last = "MODIFY_FIELD"
    /\ "artists" \in DOMAIN state.knownValues
    /\ state.knownValues.artists.clean = <<S_DJSy, S_DJSY>>
    /\ state.knownValues.artists.normal[S_djsy] = S_DJSY

\* C14: the same action applied to two copies of the same state gives equal
\* states, for every action kind, add artwork included. The two calls share
\* the state, the action and the build; each ARTWORK_ADD call takes its own
\* key from uuid(), and no other case reads anything but state and action.
C14_SameResultOnCopies ==
    \A a \in ArtworkAddActions, e1 \in UuidEnvs, e2 \in UuidEnvs : reducer(state, a, e1) = reducer(state, a, e2)

\* C15: for an action of a kind the reducer has no case for, in every
\* reachable state, the reducer returns without raising and the state
\* returned is equal to the state passed.
C15_UnknownActionNoOp ==
    \A a \in OtherActions : ~reducerThrows(state, a, NoEnv) /\ reducer(state, a, NoEnv) = state

\* an action of no known kind has been dispatched to a store with loaded,
\* edited tracks and known values
C15_Witness ==
    /\ last = "OTHER"
    /\ ~raised
    /\ Len(state.tracks.keys) >= 2
    /\ \E id \in DOMAIN state.tracks.at : FieldOf(state, id, "title") = <<"value", "x">>
    /\ state.knownValues # initialState.knownValues

\* the artworkSelected of a track record: absent, null or an index
SelectedOf(track) == IF "artworkSelected" \in DOMAIN track THEN <<"value", track.artworkSelected>> ELSE <<"absent">>

\* artworkSelected after the removal of index, from what it was before
SelectedAsClaimed(before, index) ==
    IF before = <<"absent">> \/ before = <<"value", JNull>> THEN {before}
    ELSE IF before[2] = index THEN {<<"absent">>, <<"value", JNull>>}
    ELSE IF before[2] > index THEN {<<"value", before[2] - 1>>}
    ELSE {before}

RemovedAsClaimed(s, a, s2) ==
    LET id     == a.focusedTrackID
        track  == s.tracks.at[id]
        track2 == s2.tracks.at[id]
    IN  /\ s2.tracks.keys = s.tracks.keys
        /\ \A k \in DOMAIN s.tracks.at : k # id => s2.tracks.at[k] = s.tracks.at[k]
        /\ track2.artwork = SubSeq(track.artwork, 1, a.index) \o SubSeq(track.artwork, a.index + 2, Len(track.artwork))
        /\ SelectedOf(track2) \in SelectedAsClaimed(SelectedOf(track), a.index)
        /\ \A f \in (DOMAIN track) \ {"artwork", "artworkSelected"} : f \in DOMAIN track2 /\ track2[f] = track[f]

\* C16: ARTWORK_REMOVE with an index inside the artwork sequence of the
\* focused track removes the reference at that index and keeps the others in
\* order; artworkSelected becomes unset if it was index, one less if it was
\* greater than index, and stays as it was otherwise, also when it was
\* absent; all other tracks are unchanged.
C16_ArtworkRemove ==
    \A a \in ArtworkRemoveActions :
        (/\ OHas(state.tracks, a.focusedTrackID)
         /\ "artwork" \in DOMAIN state.tracks.at[a.focusedTrackID]
         /\ a.index < Len(state.tracks.at[a.focusedTrackID].artwork)
         /\ SelectedOf(state.tracks.at[a.focusedTrackID]) # <<"value", JNaN>>)
            => RemovedAsClaimed(state, a, reducer(state, a, NoEnv))

\* C16 for the tracks that hold an artworkSelected, an index or null
ArtworkRemoveOfSelected ==
    \A a \in ArtworkRemoveActions :
        (/\ OHas(state.tracks, a.focusedTrackID)
         /\ "artwork" \in DOMAIN state.tracks.at[a.focusedTrackID]
         /\ a.index < Len(state.tracks.at[a.focusedTrackID].artwork)
         /\ SelectedOf(state.tracks.at[a.focusedTrackID]) \notin {<<"value", JNaN>>, <<"absent">>})
            => RemovedAsClaimed(state, a, reducer(state, a, NoEnv))

\* the result s2 of ARTWORK_ADD a on s, artKey being the key uuid() gave
AddedAsClaimed(s, a, artKey, s2) ==
    LET targets == SetOf(s.selectedTracks) \cup {a.focusedTrackID}
    IN  /\ artKey \notin DOMAIN s.artwork
        /\ DOMAIN s2.artwork = (DOMAIN s.artwork) \cup {artKey}
        /\ s2.artwork[artKey] = a.artwork
        /\ \A k \in DOMAIN s.artwork : s2.artwork[k] = s.artwork[k]
        /\ DOMAIN s2.tracks.at = (DOMAIN s.tracks.at) \cup targets
        /\ \A id \in (DOMAIN s.tracks.at) \ targets : s2.tracks.at[id] = s.tracks.at[id]
        /\ \A id \in targets :
              LET track    == OSpreadOf(s.tracks, id)
                  track2   == s2.tracks.at[id]
                  existing == IF "artwork" \in DOMAIN track THEN track.artwork ELSE <<>>
              IN  /\ track2.artwork = existing \o <<artKey>>
                  /\ track2.artwork[Len(track2.artwork)] = artKey
                  /\ track2.artworkSelected = Len(track2.artwork) - 1
                  /\ \A f \in (DOMAIN track) \ {"artwork", "artworkSelected"} : f \in DOMAIN track2 /\ track2[f] = track[f]

\* C17: ARTWORK_ADD stores the data in the artwork map under a key the map
\* did not have and leaves the existing entries; on every track of
\* selectedTracks and on the focused track the key becomes the last element
\* of the artwork sequence and artworkSelected the index of that element;
\* the other tracks are unchanged.
C17_ArtworkAdd ==
    \A a \in ArtworkAddActions, e \in UuidEnvs : AddedAsClaimed(state, a, e.uuid, reducer(state, a, e))

\* a second artwork has been added to a selected and to the focused track,
\* next to a track that is neither
C17_Witness ==
    /\ last = "ARTWORK_ADD"
    /\ Len(state.selectedTracks) = 1
    /\ \E id \in DOMAIN state.tracks.at :
          /\ id \notin SetOf(state.selectedTracks)
          /\ "artwork" \in DOMAIN state.tracks.at[id]
          /\ Len(state.tracks.at[id].artwork) = 2
          /\ state.tracks.at[id].artworkSelected = 1
    /\ \A id \in SetOf(state.selectedTracks) :
          /\ OHas(state.tracks, id)
          /\ "artwork" \in DOMAIN state.tracks.at[id]
          /\ Len(state.tracks.at[id].artwork) = 2
    /\ \E id \in DOMAIN state.tracks.at : "artwork" \notin DOMAIN state.tracks.at[id]

\* C18: tracksPristine is changed by TRACK_DETAILS (and TRACK_REMOVED) only:
\* every action of another kind returns a state with the same tracksPristine,
\* so whatever edits follow the load of a track, its pristine record is the
\* record as it was loaded.
C18_PristineKept ==
    /\ KeptByAllBut({"TRACK_DETAILS", "TRACK_REMOVED"}, {"tracksPristine"})
    /\ \A id \in DOMAIN state.tracksPristine : state.tracksPristine[id] = cleanNulls(ServerTrack(id))

\* a loaded track has been edited and differs from its pristine record
C18_Witness ==
    /\ last = "MODIFY_FIELD"
    /\ \E id \in DOMAIN state.tracksPristine :
          /\ FieldOf(state, id, "title") = <<"value", "y">>
          /\ "title" \notin DOMAIN state.tracksPristine[id]
          /\ state.tracksPristine[id] = cleanNulls(ServerTrack(id))

\* the list without its first occurrence of tag, the list itself when it has none
WithoutFirst(list, tag) ==
    IF Contains(list, tag)
    THEN LET i == CHOOSE k \in 1..Len(list) : list[k] = tag /\ \A j \in 1..(k - 1) : list[j] # tag
         IN  SubSeq(list, 1, i - 1) \o SubSeq(list, i + 1, Len(list))
    ELSE list

\* the result s2 of TRACK_UPDATE a, of one item, on s
UpdatedAsClaimed(s, a, s2) ==
    LET item   == a.items[1]
        id     == item.id
        fields == [f \in (DOMAIN item) \ {"completedProcess"} |-> item[f]]
    IN  /\ s2.tracks.at[id] = Spread(OSpreadOf(s.tracks, id), fields)
        /\ \A k \in DOMAIN s.tracks.at : k # id => s2.tracks.at[k] = s.tracks.at[k]
        /\ \A k \in (DOMAIN s.processes) \ {id} : k \in DOMAIN s2.processes /\ s2.processes[k] = s.processes[k]
        /\ DOMAIN s2.processes \subseteq DOMAIN s.processes
        /\ id \in DOMAIN s.processes =>
              LET left == WithoutFirst(s.processes[id], item.completedProcess)
              IN  IF left = <<>> THEN id \notin DOMAIN s2.processes
                  ELSE id \in DOMAIN s2.processes /\ s2.processes[id] = left

\* C19: TRACK_UPDATE for a track with completed process P takes P out of the
\* processing list of the track and takes no other tag out, whatever the
\* list and whatever P (a P that is not in the list included): the other
\* tags stay in order; the entry of the track in processes is deleted exactly
\* when its list becomes empty; the fields of the item are merged into the track.
C19_TrackUpdate == \A a \in TrackUpdateActions : UpdatedAsClaimed(state, a, reducer(state, a, NoEnv))

\* C19 for the completed processes that are in the list of the track
TrackUpdateOfListed ==
    \A a \in TrackUpdateActions :
        (a.items[1].id \in DOMAIN state.processes => Contains(state.processes[a.items[1].id], a.items[1].completedProcess))
            => UpdatedAsClaimed(state, a, reducer(state, a, NoEnv))

\* arr without its element at the 0-based index
DropIndex(arr, index) == SubSeq(arr, 1, index) \o SubSeq(arr, index + 2, Len(arr))

\* the result s2 of REORDER_GROUPS a on s
ReorderedAsClaimed(s, a, s2) ==
    LET oldIndex == a.indicies.oldIndex
        newIndex == a.indicies.newIndex
    IN  /\ Len(s2.trackTree) = Len(s.trackTree)
        /\ s2.trackTree[newIndex + 1] = s.trackTree[oldIndex + 1]
        /\ DropIndex(s2.trackTree, newIndex) = DropIndex(s.trackTree, oldIndex)
        /\ s2.tracks = s.tracks
        /\ s2.selectedTracks = s.selectedTracks

\* C20: REORDER_GROUPS with indices inside the tree gives a permutation of
\* the tree: the group that was at oldIndex is at newIndex, the other groups
\* are as they were and in the same relative order, tracks and
\* selectedTracks are unchanged; every action of a kind other than
\* TRACK_DETAILS and TRACK_REMOVED (and REORDER_GROUPS) keeps the tree.
C20_ReorderGroups ==
    /\ \A a \in ReorderGroupsActions(state) : ReorderedAsClaimed(state, a, reducer(state, a, NoEnv))
    /\ KeptByAllBut({"TRACK_DETAILS", "TRACK_REMOVED", "REORDER_GROUPS"}, {"trackTree"})

\* the first of three groups has been moved to the end, and the tracks
\* have been numbered after
C20_Witness ==
    /\ last = "NUMBER_SELECTED"
    /\ Len(state.trackTree) = 3
    /\ state.trackTree[1].tracks = <<"t3">>
    /\ state.trackTree[2].tracks = <<"t4">>
    /\ state.trackTree[3].tracks = <<"t1", "t2">>
    /\ Len(state.selectedTracks) = 4

(***************************************************************************)
(* Consistency of the tree, the selection and the artwork with the tracks. *)
(***************************************************************************)
\* the ids of the groups of the tree, group after group
TreeIdList(tree) == flatten([i \in 1..Len(tree) |-> tree[i].tracks])

\* C21: when the ids of every payload name tracks of the track map, in every
\* reachable state the ids in the groups of trackTree are exactly the keys
\* of tracks, each id is in one group only, no group is empty and no two
\* groups have the same directory path.
C21_TreeMatchesTracks ==
    /\ SetOf(TreeIdList(state.trackTree)) = DOMAIN state.tracks.at
    /\ NoDuplicates(TreeIdList(state.trackTree))
    /\ \A i \in 1..Len(state.trackTree) : state.trackTree[i].tracks # <<>>
    /\ \A i, j \in 1..Len(state.trackTree) : i # j => state.trackTree[i].pathParts # state.trackTree[j].pathParts

\* C21 in the states where every record of the track map is a loaded one
TreeMatchesLoadedTracks ==
    (\A id \in DOMAIN state.tracks.at : HasPath(state.tracks.at[id])) => C21_TreeMatchesTracks

\* C22: when the ids of every toggle payload name tracks of the track map,
\* in every reachable state every id of selectedTracks is a key of tracks
\* (a removed track is no longer selected) and no id is in selectedTracks twice.
C22_SelectionWithinTracks ==
    /\ SetOf(state.selectedTracks) \subseteq DOMAIN state.tracks.at
    /\ NoDuplicates(state.selectedTracks)

\* selectedTracks never holds an id twice
SelectionHasNoDuplicates == NoDuplicates(state.selectedTracks)

\* artworkSelected of the record is unset or an index of its artwork sequence
SelectedInRange(track) ==
    \/ "artworkSelected" \notin DOMAIN track
    \/ track.artworkSelected = JNull
    \/ /\ "artwork" \in DOMAIN track
       /\ 0 <= track.artworkSelected
       /\ track.artworkSelected < Len(track.artwork)

\* C23: after any sequence of ARTWORK_ADD and ARTWORK_REMOVE actions on
\* tracks that had no artwork, on every track artworkSelected is unset or an
\* index i with 0 <= i < the length of the artwork sequence of the track,
\* and every key of the sequence is a key of the artwork map.
C23_ArtworkSelectedInRange ==
    \A id \in DOMAIN state.tracks.at :
        /\ SelectedInRange(state.tracks.at[id])
        /\ "artwork" \in DOMAIN state.tracks.at[id] => Range(state.tracks.at[id].artwork) \subseteq DOMAIN state.artwork

\* two artworks have been added to a track and the first has been removed:
\* the selected index has moved down with the second
C23_Witness ==
    /\ last = "ARTWORK_REMOVE"
    /\ ~raised
    /\ \E id \in DOMAIN state.tracks.at :
          /\ "artwork" \in DOMAIN state.tracks.at[id]
          /\ Len(state.tracks.at[id].artwork) = 1
          /\ state.tracks.at[id].artworkSelected = 0
          /\ Cardinality(DOMAIN state.artwork) = 2

\* C24: with a second SAVE_TRACKS dispatched while completions of an
\* earlier save are outstanding, an id leaves targetTracks only on a
\* completion of the current save: a track of the current save whose
\* completion is still outstanding is still in targetTracks, so an empty
\* targetTracks means every track of the current save was saved after it began.
C24_OnlyCurrentSaveCompletes ==
    \A c \in inflight : c.save = saveNo => c.id \in SetOf(state.saveProcess.targetTracks)

\* C24 as long as no second save has been begun
OneSaveCompletes == saveNo <= 1 => C24_OnlyCurrentSaveCompletes

====
